---------------------------- MODULE Spec2Model ----------------------------
(***************************************************************************)
(* HashChain family of exact string search algorithms (Matt Palmer).       *)
(*                                                                         *)
(* Ten variants of search(x, m, y, n) are modelled, one per source file.   *)
(* A variant is named by a string; its tuning constants are looked up by   *)
(* the operators Q, ALPHA, S1, S2, S3.                                     *)
(*                                                                         *)
(* Representation.                                                         *)
(*  - Bytes are naturals 0..255; x and y are sequences, and the code's     *)
(*    0-based index i is element i+1.                                      *)
(*  - An unsigned int (H, Hm) is a pair <<hi, lo>> of 16-bit halves, so    *)
(*    that the rolling hash wraps at 2^32 as in C.                         *)
(*  - A table word B[i] is the set of its set bits; B itself is the set of *)
(*    pairs <<i, b>> with bit b of word i set (all other words are zero).  *)
(*  - A read outside an array is undefined behaviour: it yields a byte     *)
(*    chosen nondeterministically (parameter "stray").                     *)
(***************************************************************************)
EXTENDS Integers, Sequences, FiniteSets, TLC

Variants == {"shc2_1", "shc6", "fhc1", "hc3", "hc6", "thc2_1",
             "hc4_qverify", "whc3", "lhc4", "lhc3_kmp"}

PlainVariants   == {"shc2_1", "shc6", "fhc1"}
RollingVariants == {"hc3", "hc6", "thc2_1"}
LinearVariants  == {"lhc4", "lhc3_kmp"}
GuardVariants   == {"whc3", "lhc4"}

\* #define Q
Q(v) ==
    CASE v = "shc2_1"      -> 2
      [] v = "shc6"        -> 6
      [] v = "fhc1"        -> 1
      [] v = "hc3"         -> 3
      [] v = "hc6"         -> 6
      [] v = "thc2_1"      -> 2
      [] v = "hc4_qverify" -> 4
      [] v = "whc3"        -> 3
      [] v = "lhc4"        -> 4
      [] v = "lhc3_kmp"    -> 3

\* log2(ASIZE)
ALPHA(v) ==
    CASE v = "shc2_1"      -> 11
      [] v = "shc6"        -> 12
      [] v = "fhc1"        -> 8
      [] v = "hc3"         -> 11
      [] v = "hc6"         -> 12
      [] v = "thc2_1"      -> 11
      [] v = "hc4_qverify" -> 12
      [] v = "whc3"        -> 11
      [] v = "lhc4"        -> 12
      [] v = "lhc3_kmp"    -> 11

\* Bit shift of the chain hash: S3 in shc2-1, shc6, hc3, hc6, thc2-1 and
\* S = ALPHA / Q in the others.
S3(v) ==
    CASE v = "shc2_1"      -> 3
      [] v = "shc6"        -> 2
      [] v = "hc3"         -> 1
      [] v = "hc6"         -> 1
      [] v = "thc2_1"      -> 1
      [] OTHER             -> ALPHA(v) \div Q(v)

\* Bit shift of the anchor hash (rolling variants).
S1(v) ==
    CASE v = "hc3"    -> 3
      [] v = "hc6"    -> 2
      [] v = "thc2_1" -> 3

\* Rolling hash bit shift (rolling variants).
S2 == 4

Pow2(k) == 2 ^ k

ASIZE(v)            == Pow2(ALPHA(v))
Q2(v)               == Q(v) + Q(v)
END_FIRST_QGRAM(v)  == Q(v) - 1
END_SECOND_QGRAM(v) == Q2(v) - 1

MIN(a, b) == IF a < b THEN a ELSE b
MAX(a, b) == IF a > b THEN a ELSE b

(***************************************************************************)
(* 32-bit unsigned arithmetic on <<hi, lo>> pairs.                         *)
(***************************************************************************)
Half == 2 ^ 16

\* An int value 0 <= k < 2^31 converted to unsigned int.
U32(k) == <<k \div Half, k % Half>>

\* (H << s) in 32 bits, 0 <= s <= 8.
Shl32(H, s) ==
    LET lo == H[2] * Pow2(s)
    IN  <<(H[1] * Pow2(s) + lo \div Half) % Half, lo % Half>>

\* H + k in 32 bits, k an int value 0 <= k < 2^31.
Add32(H, k) ==
    LET lo == H[2] + (k % Half)
    IN  <<(H[1] + (k \div Half) + lo \div Half) % Half, lo % Half>>

\* H & TABLE_MASK: the low ALPHA bits (ALPHA <= 16).
TableIndex(v, H) == H[2] % ASIZE(v)

\* The bit set by FINGERPRINT(H) / LINK_HASH(H) = 1U << (H & 0x1F).
FINGERPRINT(H) == H[2] % 32

\* The bit set by FINGERPRINT(~H): (~H) & 0x1F = 31 - (H & 0x1F).
\* It is also the bit of FINGERPRINT(H ^ 0xFF).
FINGERPRINT_INV(H) == 31 - (H[2] % 32)

\* The word B[i], as the set of its set bits.
Word(B, i) == {b \in 0..31 : <<i, b>> \in B}

(***************************************************************************)
(* Hash functions.                                                         *)
(***************************************************************************)
\* arr[i] for a 0-based index i; outside the array the read is undefined.
ByteAt(arr, i, stray) ==
    IF i >= 0 /\ i < Len(arr) THEN arr[i + 1] ELSE stray

RECURSIVE HashFrom(_, _, _, _, _)
\* ((..((arr[p] << s) + arr[p-1]) << s) + ..) + arr[p-k]
HashFrom(arr, p, s, k, stray) ==
    IF k = 0 THEN ByteAt(arr, p, stray)
    ELSE HashFrom(arr, p, s, k - 1, stray) * Pow2(s) + ByteAt(arr, p - k, stray)

\* HASH(x, p, s): an int built from the Q bytes arr[p], arr[p-1], .., arr[p-Q+1].
HASH(v, arr, p, s, stray) == HashFrom(arr, p, s, Q(v) - 1, stray)

CHAIN_HASH(v, arr, p, stray)  == HASH(v, arr, p, S3(v), stray)
ANCHOR_HASH(v, arr, p, stray) == HASH(v, arr, p, S1(v), stray)

\* The 0-based indices read when hashing at position p.
QgramIdx(v, p) == (p - Q(v) + 1)..p


(***************************************************************************)
(* Preprocessing.  The locals of a loop are held in a record: B the table, *)
(* H the hash, P the set of positions of x at which a hash was computed,   *)
(* and the loop variable.                                                  *)
(***************************************************************************)
\* Variant of SetLink that records no link.
SetLink_Dropped(v, B, Hlast, H) == B

\* Variant of SetLink that records the link in the entry of the new hash.
SetLink_Reversed(v, B, Hlast, H) == B \cup {<<TableIndex(v, H), FINGERPRINT(Hlast)>>}

\* B[H_last & TABLE_MASK] |= FINGERPRINT(H)
SetLink(v, B, Hlast, H) == B \cup {<<TableIndex(v, Hlast), FINGERPRINT(H)>>}

RECURSIVE PlainChain(_, _, _, _)
\* for (chain_pos = ..; chain_pos >= END_FIRST_QGRAM; chain_pos -= Q)
PlainChain(v, x, st, stray) ==
    IF st.chain_pos >= END_FIRST_QGRAM(v)
    THEN LET H_last == st.H
             Hn     == U32(CHAIN_HASH(v, x, st.chain_pos, stray))
         IN  PlainChain(v, x, [B |-> SetLink(v, st.B, H_last, Hn),
                               H |-> Hn,
                               P |-> st.P \cup {st.chain_pos},
                               chain_pos |-> st.chain_pos - Q(v)], stray)
    ELSE st

RECURSIVE PlainChains(_, _, _, _)
\* for (chain_no = start; chain_no >= 1; chain_no--)
PlainChains(v, x, st, stray) ==
    IF st.chain_no >= 1
    THEN LET first == Len(x) - st.chain_no
             r == PlainChain(v, x, [B |-> st.B,
                                    H |-> U32(CHAIN_HASH(v, x, first, stray)),
                                    P |-> st.P \cup {first},
                                    chain_pos |-> first - Q(v)], stray)
         IN  PlainChains(v, x, [B |-> r.B, H |-> r.H, P |-> r.P,
                                chain_no |-> st.chain_no - 1], stray)
    ELSE st

\* Variant of ChainStart that starts Q chains whatever m is.
ChainStart_Unbounded(v, m) == Q(v)

\* Variant of ChainStart that builds the chain of the last q-gram only.
ChainStart_One(v, m) == 1

\* The first chain number: Q, or in whc3, lhc4 and lhc3-kmp
\* start = m < Q2 ? m - END_FIRST_QGRAM : Q.
ChainStart(v, m) ==
    IF v \in {"whc3", "lhc4", "lhc3_kmp"}
    THEN (IF m < Q2(v) THEN m - END_FIRST_QGRAM(v) ELSE Q(v))
    ELSE Q(v)

\* Variant of FillEntry that leaves the empty entries empty.
FillEntry_None(v, B, F) == B

\* Variant of FillEntry that assigns the entry whether or not it is empty.
FillEntry_Always(v, B, F) ==
    {e \in B : e[1] # TableIndex(v, F)}
        \cup {<<TableIndex(v, F), FINGERPRINT_INV(F)>>}

\* if (!B[F & TABLE_MASK]) B[F & TABLE_MASK] = FINGERPRINT(~F);
FillEntry(v, B, F) ==
    IF Word(B, TableIndex(v, F)) = {}
    THEN B \cup {<<TableIndex(v, F), FINGERPRINT_INV(F)>>}
    ELSE B

RECURSIVE PlainFill(_, _, _, _, _)
\* for (chain_pos = END_FIRST_QGRAM; chain_pos < stop; chain_pos++)
PlainFill(v, x, st, stop, stray) ==
    IF st.chain_pos < stop
    THEN LET F == U32(CHAIN_HASH(v, x, st.chain_pos, stray))
         IN  PlainFill(v, x, [B |-> FillEntry(v, st.B, F),
                              P |-> st.P \cup {st.chain_pos},
                              chain_pos |-> st.chain_pos + 1], stop, stray)
    ELSE st

\* Variant of ZeroTable that leaves the table as it was.
ZeroTable_Kept(B0) == B0

\* for (int i = 0; i < ASIZE; i++) B[i] = 0;
ZeroTable(B0) == B0 \ B0

\* Steps 0 and 1 of preprocessing() of shc2-1, shc6, fhc1, hc4-qverify, whc3,
\* lhc4, lhc3-kmp: zero the table, write the chain links.
\* H is unassigned before the first chain; start >= 1 whenever m >= Q.
PlainLinks(v, x, B0, stray) ==
    LET c == PlainChains(v, x, [B |-> ZeroTable(B0), H |-> U32(0), P |-> {},
                                chain_no |-> ChainStart(v, Len(x))], stray)
    IN  [B |-> c.B, H |-> c.H, P |-> c.P]

\* Step 2 of the same: fill the entries of the leading q-grams; return H.
PlainLeading(v, x, c, stray) ==
    LET f == PlainFill(v, x, [B |-> c.B, P |-> c.P,
                              chain_pos |-> END_FIRST_QGRAM(v)],
                       MIN(Len(x), END_SECOND_QGRAM(v)), stray)
    IN  [B |-> f.B, H |-> c.H, P |-> f.P]

\* preprocessing() of shc2-1, shc6, fhc1, hc4-qverify, whc3, lhc4, lhc3-kmp.
PlainPreprocessing(v, x, B0, stray) ==
    PlainLeading(v, x, PlainLinks(v, x, B0, stray), stray)

\* The rolling update H = (H << S2) + CHAIN_HASH(arr, p) in 32 bits.
Roll(v, H, arr, p, stray) == Add32(Shl32(H, S2), CHAIN_HASH(v, arr, p, stray))

CEIL_DIV(n, d) == (n + d - 1) \div d

\* Variant of CHAIN_LENGTH that bounds every chain at one q-gram.
CHAIN_LENGTH_Short(v) == 0

\* Length required to synchronise with the rolling hash chain (hc3, thc2-1).
CHAIN_LENGTH(v) == (CEIL_DIV(ALPHA(v), S2) + 1) * Q(v)

RECURSIVE RollChain(_, _, _, _, _, _)
\* for (chain_pos = start_chain; chain_pos >= stop_chain; chain_pos -= Q),
\* writing the links when "link" holds and only rolling H otherwise.
RollChain(v, x, st, stop_chain, link, stray) ==
    IF st.chain_pos >= stop_chain
    THEN LET H_last == st.H
             Hn     == Roll(v, st.H, x, st.chain_pos, stray)
         IN  RollChain(v, x, [B |-> IF link THEN SetLink(v, st.B, H_last, Hn)
                                    ELSE st.B,
                              H |-> Hn,
                              P |-> st.P \cup {st.chain_pos},
                              chain_pos |-> st.chain_pos - Q(v)],
                       stop_chain, link, stray)
    ELSE st

RECURSIVE RollAnchors(_, _, _, _)
\* hc3, thc2-1: for (anchor_pos = END_SECOND_QGRAM; anchor_pos < m; anchor_pos++)
RollAnchors(v, x, st, stray) ==
    IF st.anchor_pos < Len(x)
    THEN LET start_chain == st.anchor_pos - Q(v)
             stop_chain  == MAX(END_FIRST_QGRAM(v), start_chain - CHAIN_LENGTH(v))
             r == RollChain(v, x,
                            [B |-> st.B,
                             H |-> U32(ANCHOR_HASH(v, x, st.anchor_pos, stray)),
                             P |-> st.P \cup {st.anchor_pos},
                             chain_pos |-> start_chain],
                            stop_chain, TRUE, stray)
         IN  RollAnchors(v, x, [B |-> r.B, H |-> r.H, P |-> r.P,
                                anchor_pos |-> st.anchor_pos + 1], stray)
    ELSE st

RECURSIVE RollFill(_, _, _, _, _)
\* hc3, thc2-1: for (anchor = END_FIRST_QGRAM; anchor < stop; anchor++)
RollFill(v, x, st, stop, stray) ==
    IF st.anchor < stop
    THEN LET H == U32(ANCHOR_HASH(v, x, st.anchor, stray))
         IN  RollFill(v, x, [B |-> FillEntry(v, st.B, H),
                             P |-> st.P \cup {st.anchor},
                             anchor |-> st.anchor + 1], stop, stray)
    ELSE st

\* Steps 0 and 1 of preprocessing() of hc3 and thc2-1: zero the table, write
\* the chain links of every anchor.  H holds the hash of the last chain.
RollingLinks(v, x, B0, stray) ==
    LET a == RollAnchors(v, x, [B |-> ZeroTable(B0), H |-> U32(0), P |-> {},
                                anchor_pos |-> END_SECOND_QGRAM(v)], stray)
    IN  [B |-> a.B, H |-> a.H, P |-> a.P]

\* Variant of RollingLeading that returns the anchor hash of the last q-gram.
RollingLeading_NoWalk(v, x, a, stray) ==
    LET f == RollFill(v, x, [B |-> a.B, P |-> a.P, anchor |-> END_FIRST_QGRAM(v)],
                      MIN(Len(x), END_SECOND_QGRAM(v)), stray)
    IN  [B |-> f.B, H |-> U32(ANCHOR_HASH(v, x, Len(x) - 1, stray)),
         P |-> f.P \cup {Len(x) - 1}]

\* Steps 2 and 3 of the same: fill the entries of the leading q-grams, then
\* compute the hash of the whole pattern and return it.
RollingLeading(v, x, a, stray) ==
    LET f == RollFill(v, x, [B |-> a.B, P |-> a.P, anchor |-> END_FIRST_QGRAM(v)],
                      MIN(Len(x), END_SECOND_QGRAM(v)), stray)
        final_pos == Len(x) - 1
        h == RollChain(v, x, [B |-> f.B,
                              H |-> U32(ANCHOR_HASH(v, x, final_pos, stray)),
                              P |-> f.P \cup {final_pos},
                              chain_pos |-> final_pos - Q(v)],
                       END_FIRST_QGRAM(v), FALSE, stray)
    IN  [B |-> h.B, H |-> h.H, P |-> h.P]

\* preprocessing() of hc3 and thc2-1.
RollingPreprocessing(v, x, B0, stray) ==
    RollingLeading(v, x, RollingLinks(v, x, B0, stray), stray)

\* Variant of rollingHashLimit that bounds every chain at nothing.
rollingHashLimit_Short(v) == 0

\* hc6: rollingHashLimit = (LOG2(ASIZE) * Q / S2) + (Q * 2)
rollingHashLimit(v) == ((ALPHA(v) * Q(v)) \div S2) + (Q(v) * 2)

RECURSIVE Hc6Anchors(_, _, _, _, _)
\* hc6: for (anchor = (2*Q) - 1; anchor < m - 1; anchor++)
Hc6Anchors(v, x, st, fact, stray) ==
    IF st.anchor < Len(x) - 1
    THEN LET stop == IF (st.anchor - fact + 1) > (Q(v) - 1)
                     THEN (st.anchor - fact + 1) ELSE (Q(v) - 1)
             r == RollChain(v, x,
                            [B |-> st.B,
                             H |-> U32(ANCHOR_HASH(v, x, st.anchor, stray)),
                             P |-> st.P \cup {st.anchor},
                             chain_pos |-> st.anchor - Q(v)],
                            stop, TRUE, stray)
         IN  Hc6Anchors(v, x, [B |-> r.B, P |-> r.P, anchor |-> st.anchor + 1],
                        fact, stray)
    ELSE st

\* Variant of Hc6FillEntry that leaves the empty entries empty.
Hc6FillEntry_None(v, B, H2, F) == B

\* hc6: if (!B[H2 & TABLE_MASK])
\*          B[H2 & TABLE_MASK] = FINGERPRINT(CHAIN_HASH(x, anchor) ^ 0xFF);
Hc6FillEntry(v, B, H2, F) ==
    IF Word(B, TableIndex(v, H2)) = {}
    THEN B \cup {<<TableIndex(v, H2), FINGERPRINT_INV(F)>>}
    ELSE B

RECURSIVE Hc6Fill(_, _, _, _, _)
\* hc6: for (anchor = Q-1; anchor <= stop; anchor++), H2 = ANCHOR_HASH(x, anchor)
Hc6Fill(v, x, st, stop, stray) ==
    IF st.anchor <= stop
    THEN LET H2 == U32(ANCHOR_HASH(v, x, st.anchor, stray))
             F  == U32(CHAIN_HASH(v, x, st.anchor, stray))
         IN  Hc6Fill(v, x, [B |-> Hc6FillEntry(v, st.B, H2, F),
                            P |-> st.P \cup {st.anchor},
                            anchor |-> st.anchor + 1], stop, stray)
    ELSE st

\* Steps 0, 1 and 2 of preprocessing() of hc6: zero the table, write the
\* bounded chains of the anchors and the whole chain of the last q-gram.
Hc6Links(v, x, B0, stray) ==
    LET len   == Len(x)
        fact == IF len < rollingHashLimit(v) THEN len ELSE rollingHashLimit(v)
        a == Hc6Anchors(v, x, [B |-> ZeroTable(B0), P |-> {},
                               anchor |-> (2 * Q(v)) - 1], fact, stray)
        h == RollChain(v, x, [B |-> a.B,
                              H |-> U32(ANCHOR_HASH(v, x, len - 1, stray)),
                              P |-> a.P \cup {len - 1},
                              chain_pos |-> len - 1 - Q(v)],
                       Q(v) - 1, TRUE, stray)
    IN  [B |-> h.B, H |-> h.H, P |-> h.P]

\* Step 3 of the same: fill the entries of the first Q q-grams; return H.
Hc6Leading(v, x, h, stray) ==
    LET len  == Len(x)
        stop == IF len < (2 * Q(v)) THEN len - 1 ELSE (2 * Q(v)) - 1
        f == Hc6Fill(v, x, [B |-> h.B, P |-> h.P, anchor |-> Q(v) - 1], stop, stray)
    IN  [B |-> f.B, H |-> h.H, P |-> f.P]

\* preprocessing() of hc6.
Hc6Preprocessing(v, x, B0, stray) ==
    Hc6Leading(v, x, Hc6Links(v, x, B0, stray), stray)

\* The part of preprocessing(x, m, B) of variant v that zeroes B and writes the
\* chain links.
Links(v, x, B0, stray) ==
    CASE v = "hc6"               -> Hc6Links(v, x, B0, stray)
      [] v \in {"hc3", "thc2_1"} -> RollingLinks(v, x, B0, stray)
      [] OTHER                   -> PlainLinks(v, x, B0, stray)

\* The rest of preprocessing(x, m, B): the fill of the leading q-grams and the
\* returned hash, c being the locals when the links are written.
Leading(v, x, c, stray) ==
    CASE v = "hc6"               -> Hc6Leading(v, x, c, stray)
      [] v \in {"hc3", "thc2_1"} -> RollingLeading(v, x, c, stray)
      [] OTHER                   -> PlainLeading(v, x, c, stray)

\* preprocessing(x, m, B) of variant v; B0 is what the array B held on entry.
preprocessing(v, x, B0, stray) ==
    CASE v = "hc6"               -> Hc6Preprocessing(v, x, B0, stray)
      [] v \in {"hc3", "thc2_1"} -> RollingPreprocessing(v, x, B0, stray)
      [] OTHER                   -> PlainPreprocessing(v, x, B0, stray)

(***************************************************************************)
(* KMP failure tables (linear variants).  The table is built entry by      *)
(* entry, KMP[0], KMP[1], ..: the sequence kmp holds the entries written   *)
(* so far, KMP[j] being kmp[j + 1].  The locals are held in a record: kmp, *)
(* j, t, and the sets xr, kr, kw of the indices of x read, of KMP read and *)
(* of KMP written.                                                         *)
(***************************************************************************)
\* KMP[i]; an entry not yet written holds an undefined value.
KmpAt(kmp, i, stray) ==
    IF i >= 0 /\ i < Len(kmp) THEN kmp[i + 1] ELSE stray

\* KMP[i] = e, the entries being written in the order KMP[0], KMP[1], ..
KmpSet(kmp, i, e) ==
    IF i = Len(kmp) THEN Append(kmp, e)
    ELSE [k \in 1..Len(kmp) |-> IF k = i + 1 THEN e ELSE kmp[k]]

\* Variant of KmpFallback that never follows a failure link.
KmpFallback_None(x, st, stray) == st

RECURSIVE KmpFallback(_, _, _)
\* while (t > -1 && x[j] != x[t]) t = KMP[t];
KmpFallback(x, st, stray) ==
    IF st.t > -1
    THEN LET rd == [st EXCEPT !.xr = @ \cup {st.j, st.t}]
         IN  IF ByteAt(x, st.j, stray) # ByteAt(x, st.t, stray)
             THEN KmpFallback(x, [rd EXCEPT !.t = KmpAt(st.kmp, st.t, stray),
                                            !.kr = @ \cup {st.t}], stray)
             ELSE rd
    ELSE st

\* Variant of KmpEntry without the test of the next byte: the plain failure
\* function.
KmpEntry_Plain(x, kmp, j, t, stray) == t

\* KMP[j] = (j < m && x[j] == x[t]) ? KMP[t] : t;
KmpEntry(x, kmp, j, t, stray) ==
    IF j < Len(x) /\ ByteAt(x, j, stray) = ByteAt(x, t, stray)
    THEN KmpAt(kmp, t, stray) ELSE t

RECURSIVE KmpLoop(_, _, _)
\* while (j < m) { ..; j++; t++; KMP[j] = (j < m && x[j] == x[t]) ? KMP[t] : t; }
KmpLoop(x, st, stray) ==
    IF st.j < Len(x)
    THEN LET f  == KmpFallback(x, st, stray)
             j1 == f.j + 1
             t1 == f.t + 1
             cp == j1 < Len(x) /\ ByteAt(x, j1, stray) = ByteAt(x, t1, stray)
             e  == KmpEntry(x, f.kmp, j1, t1, stray)
         IN  KmpLoop(x, [kmp |-> KmpSet(f.kmp, j1, e), j |-> j1, t |-> t1,
                         xr |-> f.xr \cup (IF j1 < Len(x) THEN {j1, t1} ELSE {}),
                         kr |-> f.kr \cup (IF cp THEN {t1} ELSE {}),
                         kw |-> f.kw \cup {j1}], stray)
    ELSE st

\* int j = 0; int t = -1; KMP[0] = -1;
KmpStartState == [kmp |-> <<-1>>, j |-> 0, t |-> -1, xr |-> {}, kr |-> {}, kw |-> {0}]

\* lhc4.c: pre_kmp(x, m, KMP)
pre_kmp(x, stray) == KmpLoop(x, KmpStartState, stray)

\* lhc3-kmp.c: preKmp(x, m, kmpNext), the table search() uses there
preKmp(x, stray) == KmpLoop(x, KmpStartState, stray)

RECURSIVE UnusedLoop(_, _, _)
\* lhc3-kmp.c, pre_kmp:
\*   while (j < m - 1) { ..; j++; t++;
\*       if (x[j] != x[t]) KMP[j] = KMP[t]; else KMP[j] = t; }
\*   KMP[m] = t;
UnusedLoop(x, st, stray) ==
    IF st.j < Len(x) - 1
    THEN LET f  == KmpFallback(x, st, stray)
             j1 == f.j + 1
             t1 == f.t + 1
             ne == ByteAt(x, j1, stray) # ByteAt(x, t1, stray)
             e  == IF ne THEN KmpAt(f.kmp, t1, stray) ELSE t1
         IN  UnusedLoop(x, [kmp |-> KmpSet(f.kmp, j1, e), j |-> j1, t |-> t1,
                            xr |-> f.xr \cup {j1, t1},
                            kr |-> f.kr \cup (IF ne THEN {t1} ELSE {}),
                            kw |-> f.kw \cup {j1}], stray)
    ELSE [st EXCEPT !.kmp = KmpSet(st.kmp, Len(x), st.t),
                    !.kw = @ \cup {Len(x)}]

\* lhc3-kmp.c: pre_kmp(x, m, KMP), the helper that search() does not call
pre_kmp_unused(x, stray) == UnusedLoop(x, KmpStartState, stray)

\* The failure table function called by search() of a linear variant.
KmpBuild(v, x, stray) == IF v = "lhc4" THEN pre_kmp(x, stray) ELSE preKmp(x, stray)

\* Variant of KmpTable without borders: every failure link goes to 0.
KmpTable_NoBorder(v, x) == [i \in 1..(Len(x) + 1) |-> IF i = 1 THEN -1 ELSE 0]

\* The failure table built by search() of a linear variant; the construction
\* reads inside x and KMP only.
KmpTable(v, x) == KmpBuild(v, x, 0).kmp

(***************************************************************************)
(* Inputs.  Patterns and texts are periodic words over a two-byte alphabet *)
(* with at most one byte replaced by the other letter: this family holds   *)
(* the single-letter texts, overlapping occurrences, near misses, chain    *)
(* failures at every depth and q-grams foreign to the pattern.             *)
(***************************************************************************)
\* Patterns have m in kQ-1 .. kQ+MaxExtraM for k = 1, 2, and m = 3Q, where the
\* backward walk takes two steps; the rolling variants have one longer m, past
\* the bounded chain length of preprocessing.
MaxExtraM == 1
\* Texts have n in {0} \cup m-1 .. m + MaxSlack.
MaxSlack == 3

\* <<'a', 'b'>>, and <<0, 16>>: with the latter every hash is a multiple of
\* 16, so the fingerprint of a q-gram is decided by its leftmost byte alone
\* and chain links collide.
Alphabets == {<<97, 98>>, <<0, 16>>}

\* The periods of the generated words, over the letters 1, 2.
PatternUnits == {<<1>>, <<1, 2>>, <<1, 1, 2>>}
TextUnits    == {<<1>>, <<1, 2>>, <<1, 1, 2>>}

\* The word of length len with period u, letter d replaced (d = 0: none).
Periodic(al, u, len, d) ==
    [i \in 1..len |->
        LET c == u[((i - 1) % Len(u)) + 1]
        IN  al[IF i = d THEN 3 - c ELSE c]]

\* The shortest m at which preprocessing cuts the chain of some anchor at the
\* bounded chain length, before it reaches the first q-gram.
LongLen(v) ==
    IF v = "hc6" THEN rollingHashLimit(v) + Q(v) + 1
    ELSE CHAIN_LENGTH(v) + 3 * Q(v)

PatternLens(v) ==
    UNION {((k * Q(v)) - 1)..((k * Q(v)) + MaxExtraM) : k \in 1..2}
    \cup {3 * Q(v)}
    \cup (IF v \in RollingVariants THEN {LongLen(v)} ELSE {})
TextLens(len) == {0} \cup ((len - 1)..(len + MaxSlack))

\* A pattern carries its replaced letter nowhere, first or last.
Patterns(v, al) ==
    {Periodic(al, u, len, d) : u \in PatternUnits, len \in PatternLens(v), d \in {0, 1}}
    \cup {Periodic(al, u, len, len) : u \in PatternUnits, len \in PatternLens(v)}

Texts(al, len) ==
    UNION {{Periodic(al, u, k, d) : u \in TextUnits, d \in 0..k} : k \in TextLens(len)}

\* whc3, lhc4: the shortest text in which a backward walk can come back to the
\* previous rightmost_match_pos R: a probe hit at R = m - 1, a chain failure at
\* R - Q, and a probe hit at R - Q + MQ1 >= R + Q, which takes m >= 3Q - 1.
GuardLens(v, len) ==
    IF v \in GuardVariants /\ len = 3 * Q(v) THEN {len + Q(v) + 1} ELSE {}

GuardTexts(v, al, len) ==
    UNION {{Periodic(al, u, k, d) : u \in TextUnits, d \in 0..k} : k \in GuardLens(v, len)}
GuardPlainTexts(v, al, len) ==
    {Periodic(al, u, k, 0) : u \in TextUnits, k \in GuardLens(v, len)}

\* Bytes an out-of-bounds read may yield.
StrayBytes == {0, 98}
\* What the stack array B holds before preprocessing: some non-zero words.
StaleTable == {<<0, 0>>, <<0, 31>>, <<9, 5>>}

\* preprocessing(x, m, B) for each byte a read outside x may yield.
PreprocessingBy(v, px, B0) ==
    [s \in StrayBytes |-> preprocessing(v, px, B0, s)] @@ <<>>

\* The words without a replaced letter.
PlainPatterns(v, al) ==
    {Periodic(al, u, len, 0) : u \in PatternUnits, len \in PatternLens(v)}
PlainTexts(al, len) ==
    {Periodic(al, u, k, 0) : u \in TextUnits, k \in TextLens(len)}

\* The occurrences: the positions i in [0, n-m] with y[i..i+m) == x.
Occurrences(px, py, pn) ==
    {i \in 0..(pn - Len(px)) : \A k \in 1..Len(px) : py[i + k] = px[k]}

(***************************************************************************)
(* State of one call search(x, m, y, n).                                   *)
(***************************************************************************)
VARIABLES
    variant,              \* which source file's search() runs
    x, y, n,              \* the arguments; m is Len(x).  In thc2-1 the buffer y
                          \* has m more bytes after y[n-1], and one byte after
                          \* those
    pc,                   \* "entry", "top", "skip", "walk", "kmp", "done"
    ret,                  \* the returned value, once pc = "done"
    B, Hm, KMP,           \* results of preprocessing
    pre,                  \* what preprocessing(x, m, B) computes for this x, by
                          \* the byte a read outside x yields, and the KMP table
                          \* of x: functions of x alone, tabulated with the
                          \* arguments of the call
    H, V, pos, count,     \* locals of search()
    end_first_qgram_pos,  \* pos - m + Q of the window being examined
    scan_back_pos,        \* where the backward walk stops
    rightmost_match_pos,  \* whc3, lhc4
    next_verify_pos, pattern_pos, window_start_pos,   \* lhc4, lhc3-kmp
    \* history variables
    xread, yread,         \* indices of x and of y read so far
    top,                  \* pos at the previous evaluation of while (pos < n)
    iters,                \* iterations of the main loop started
    how,                  \* how the last iteration ended
    cmps,                 \* byte comparisons made by the KMP verifier
    vstep,                \* alignments at which the verification step was reached
    matched,              \* alignments counted as occurrences
    carried,              \* lhc4, lhc3-kmp: did the KMP verifier enter the current
                          \* window with the cursor of an earlier window
    calls,                \* calls of preprocessing() made on the table B
    Bin,                  \* what B held on entry to the last of them
    kread, kwritten,      \* indices of KMP read and written by its construction
    rightmost_before      \* whc3, lhc4: rightmost_match_pos before the last probe

vars == <<variant, x, y, n, pc, ret, B, Hm, KMP, pre, H, V, pos, count,
          end_first_qgram_pos, scan_back_pos, rightmost_match_pos,
          next_verify_pos, pattern_pos, window_start_pos,
          xread, yread, top, iters, how, cmps, vstep, matched, carried,
          calls, Bin, kread, kwritten, rightmost_before>>

m   == Len(x)

\* Variant of MQ1 that shifts by m - Q.
MQ1_Zero == m - Q(variant)

\* Variant of MQ1 that shifts by m - Q + 2.
MQ1_Far == m - Q(variant) + 2

\* const int MQ1 = m - Q + 1;
MQ1 == m - Q(variant) + 1

SkipVariants   == {"fhc1", "thc2_1"}
MemcmpVariants == {"shc2_1", "shc6", "fhc1", "hc3", "hc6", "thc2_1", "whc3"}
\* The variants that test H == Hm before memcmp.
GateVariants   == {"shc2_1", "shc6", "fhc1", "hc3", "hc6", "thc2_1"}

\* Variant of TooShort that lets a pattern of Q-1 bytes through.
TooShort_OffByOne(v, len) == len < Q(v) - 1

\* if (m < Q) return -1;
TooShort(v, len) == len < Q(v)

\* Variant of StartPos that starts one byte early.
StartPos_Early(len) == len - 2

\* int pos = m - 1;
StartPos(len) == len - 1

\* No local holds a value yet and the history is empty.
Unset ==
    /\ ret = 0
    /\ Hm = U32(0)
    /\ KMP = <<>>
    /\ H = U32(0)
    /\ V = {}
    /\ pos = 0
    /\ count = 0
    /\ end_first_qgram_pos = 0
    /\ scan_back_pos = 0
    /\ rightmost_match_pos = 0
    /\ next_verify_pos = 0
    /\ pattern_pos = 0
    /\ window_start_pos = 0
    /\ xread = {}
    /\ yread = {}
    /\ top = -1
    /\ iters = 0
    /\ how = "none"
    /\ cmps = 0
    /\ vstep = {}
    /\ matched = {}
    /\ carried = FALSE
    /\ calls = 0
    /\ Bin = {}
    /\ kread = {}
    /\ kwritten = {}
    /\ rightmost_before = 0

\* A call search(x, m, y, n) is about to run, with a pattern and a text over
\* one alphabet; "plain" leaves out the words with a replaced letter.
Start(plain) ==
    /\ variant \in Variants
    /\ \E al \in Alphabets :
         /\ x \in IF plain THEN PlainPatterns(variant, al)
                  ELSE Patterns(variant, al)
         /\ pre = IF TooShort(variant, Len(x)) THEN <<>>
                  ELSE [tables |-> PreprocessingBy(variant, x, StaleTable),
                        KMP    |-> IF variant \in LinearVariants
                                   THEN KmpTable(variant, x) ELSE <<>>]
         /\ \E t \in IF plain
                     THEN PlainTexts(al, Len(x))
                          \cup GuardPlainTexts(variant, al, Len(x))
                     ELSE Texts(al, Len(x))
                          \cup GuardTexts(variant, al, Len(x)) :
              /\ n = Len(t)
              /\ y = IF variant = "thc2_1"
                     THEN t \o [i \in 1..(Len(x) + 1) |-> 0] ELSE t
    /\ pc = "entry"
    /\ B = StaleTable
    /\ Unset

Init == Start(FALSE)

\* The bytes an access to the index set idx of array arr may yield where it
\* leaves the array: one value when every index is inside.
Stray(arr, idx) ==
    IF idx \subseteq 0..(Len(arr) - 1) THEN {0} ELSE StrayBytes

\* The bytes of x read by preprocessing (and by the KMP table and the
\* sentinel copy, which read all of x).
PreReads(v, P) ==
    UNION {QgramIdx(v, p) : p \in P}
    \cup (IF v \in LinearVariants \/ v = "thc2_1" THEN 0..(m - 1) ELSE {})

\* Variant of CopySentinel that copies nothing.
CopySentinel_None(py, px, pn) == py

\* Variant of CopySentinel that copies one byte more than the pattern has.
CopySentinel_OneMore(py, px, pn) ==
    [i \in 1..Len(py) |->
        IF i > pn /\ i <= pn + Len(px) THEN px[i - pn]
        ELSE IF i = pn + Len(px) + 1 THEN px[1] ELSE py[i]]

\* for (int i = 0; i < m; i++) y[n + i] = x[i];  (thc2-1)
CopySentinel(py, px, pn) ==
    [i \in 1..Len(py) |->
        IF i > pn /\ i <= pn + Len(px) THEN px[i - pn] ELSE py[i]]

\* search(): the m < Q test, preprocessing and the initialisation of the locals.
Enter ==
    /\ pc = "entry"
    /\ IF TooShort(variant, m)
       THEN /\ ret' = -1
            /\ pc' = "done"
            /\ UNCHANGED <<B, Hm, KMP, y, count, pos, rightmost_match_pos,
                           next_verify_pos, pattern_pos, xread>>
       ELSE \E stray \in Stray(x, PreReads(variant, pre.tables[0].P)) :
              LET r == pre.tables[stray]
              IN  /\ B' = r.B
                  /\ Hm' = r.H
                  /\ KMP' = pre.KMP
                  /\ y' = IF variant = "thc2_1" THEN CopySentinel(y, x, n) ELSE y
                  /\ xread' = PreReads(variant, r.P)
                  /\ count' = 0
                  /\ pos' = StartPos(m)
                  /\ rightmost_match_pos' = 0
                  /\ next_verify_pos' = 0
                  /\ pattern_pos' = 0
                  /\ pc' = "top"
                  /\ ret' = ret
    /\ UNCHANGED <<variant, x, calls, Bin, kread, kwritten, rightmost_before, n, pre, carried, H, V, end_first_qgram_pos, scan_back_pos,
                   window_start_pos, yread, top, iters, how, cmps, vstep, matched>>

\* while (pos < n) is false: return count.
LoopExit ==
    /\ pc = "top"
    /\ ~(pos < n)
    /\ ret' = count
    /\ pc' = "done"
    /\ top' = pos
    /\ UNCHANGED <<variant, x, calls, Bin, kread, kwritten, rightmost_before, y, n, pre, carried, B, Hm, KMP, H, V, pos, count,
                   end_first_qgram_pos, scan_back_pos, rightmost_match_pos,
                   next_verify_pos, pattern_pos, window_start_pos,
                   xread, yread, iters, how, cmps, vstep, matched>>

\* The hash the scanner probes the table with at position p.
ProbeHash(v, arr, p, stray) ==
    IF v \in RollingVariants
    THEN U32(ANCHOR_HASH(v, arr, p, stray))
    ELSE U32(CHAIN_HASH(v, arr, p, stray))

\* Variant of ScanBack that lets the walk go one q-gram past the first.
ScanBack_Deep(v, p) == p - m + Q(v)

\* Variant of ScanBack without the guards of the linearising variants.
ScanBack_Unguarded(v, p) == (p - m + Q(v)) + Q(v)

\* Where the backward walk of variant v stops, for a probe hit at position p.
ScanBack(v, p) ==
    LET efq == p - m + Q(v)
    IN  CASE v \in GuardVariants -> MAX(efq, rightmost_match_pos) + Q(v)
          [] v = "lhc3_kmp"      -> MAX(efq + Q(v), next_verify_pos - 1 + Q(v))
          [] OTHER               -> efq + Q(v)

\* Variant of RightmostMatch that stores the end of the window's first q-gram.
RightmostMatch_Window(v, p, r) ==
    IF v \in GuardVariants THEN p - m + Q(v) ELSE r

\* whc3, lhc4: rightmost_match_pos = pos; the other variants have no such local.
RightmostMatch(v, p, r) ==
    IF v \in GuardVariants THEN p ELSE r

\* One iteration of the main loop up to the probe: H = hash(y, pos);
\* V = B[H & TABLE_MASK]; an empty entry shifts by MQ1.
Probe ==
    /\ pc = "top"
    /\ pos < n
    /\ variant \notin SkipVariants
    /\ \E stray \in Stray(y, QgramIdx(variant, pos)) :
         LET h == ProbeHash(variant, y, pos, stray)
             w == Word(B, TableIndex(variant, h))
         IN  /\ H' = h
             /\ V' = w
             /\ IF w = {}
                THEN /\ pos' = pos + MQ1
                     /\ pc' = "top"
                     /\ how' = "miss"
                     /\ UNCHANGED <<end_first_qgram_pos, scan_back_pos,
                                    rightmost_match_pos>>
                ELSE /\ end_first_qgram_pos' = pos - m + Q(variant)
                     /\ scan_back_pos' = ScanBack(variant, pos)
                     /\ rightmost_match_pos' =
                            RightmostMatch(variant, pos, rightmost_match_pos)
                     /\ pc' = "walk"
                     /\ UNCHANGED <<pos, how>>
    /\ yread' = yread \cup QgramIdx(variant, pos)
    /\ top' = pos
    /\ iters' = iters + 1
    /\ rightmost_before' = rightmost_match_pos
    /\ UNCHANGED <<variant, x, calls, Bin, kread, kwritten, y, n, pre, carried, ret, B, Hm, KMP, count, next_verify_pos,
                   pattern_pos, window_start_pos, xread, cmps, vstep, matched>>

\* fhc1, thc2-1: one evaluation of the condition of the fast skip loop
\*   fhc1:   while (pos < n && !(V = B[(H = CHAIN_HASH(y, pos)) & TABLE_MASK]))
\*   thc2-1: while (!((V = B[ANCHOR_HASH(y, pos) & TABLE_MASK])))
\* with its body pos += MQ1, or on leaving it the test if (pos < n).
FastSkip ==
    /\ variant \in SkipVariants
    /\ \/ pc = "top" /\ pos < n
       \/ pc = "skip"
    /\ LET reads == variant = "thc2_1" \/ pos < n
       IN  \E stray \in Stray(y, IF reads THEN QgramIdx(variant, pos) ELSE {}) :
             LET h == ProbeHash(variant, y, pos, stray)
                 w == IF reads THEN Word(B, TableIndex(variant, h)) ELSE V
                 again == IF variant = "fhc1" THEN pos < n /\ w = {} ELSE w = {}
             IN  /\ V' = w
                 /\ yread' = yread \cup
                             (IF reads THEN QgramIdx(variant, pos) ELSE {})
                 /\ IF again
                    THEN /\ pos' = pos + MQ1
                         /\ pc' = "skip"
                         /\ H' = IF variant = "fhc1" THEN h ELSE H
                         /\ UNCHANGED <<end_first_qgram_pos, scan_back_pos, how>>
                    ELSE IF pos < n
                    THEN /\ H' = h
                         /\ end_first_qgram_pos' = pos - m + Q(variant)
                         /\ scan_back_pos' = ScanBack(variant, pos)
                         /\ pc' = "walk"
                         /\ UNCHANGED <<pos, how>>
                    ELSE /\ pos' = pos + MQ1
                         /\ pc' = "top"
                         /\ how' = "skipend"
                         /\ H' = H
                         /\ UNCHANGED <<end_first_qgram_pos, scan_back_pos>>
    /\ top' = IF pc = "top" THEN pos ELSE top
    /\ iters' = IF pc = "top" THEN iters + 1 ELSE iters
    /\ UNCHANGED <<variant, x, calls, Bin, kread, kwritten, rightmost_before, y, n, pre, carried, ret, B, Hm, KMP, count, rightmost_match_pos,
                   next_verify_pos, pattern_pos, window_start_pos, xread, cmps,
                   vstep, matched>>

\* The hash of the next q-gram to the left: plain, or the rolling update.
WalkHash(v, h, arr, p, stray) ==
    IF v \in RollingVariants
    THEN Roll(v, h, arr, p, stray)
    ELSE U32(CHAIN_HASH(v, arr, p, stray))

\* One step of the backward chain walk:
\*   pos -= Q; H = ..; if (!(V & FINGERPRINT(H))) goto shift; V = B[H & TABLE_MASK];
\* A missing fingerprint ends the iteration with pos += MQ1.
WalkStep ==
    /\ pc = "walk"
    /\ pos >= scan_back_pos
    /\ \E stray \in Stray(y, QgramIdx(variant, pos - Q(variant))) :
         LET p == pos - Q(variant)
             h == WalkHash(variant, H, y, p, stray)
         IN  /\ H' = h
             /\ IF FINGERPRINT(h) \notin V
                THEN /\ pos' = p + MQ1
                     /\ pc' = "top"
                     /\ how' = "fail"
                     /\ V' = V
                ELSE /\ pos' = p
                     /\ V' = Word(B, TableIndex(variant, h))
                     /\ UNCHANGED <<pc, how>>
    /\ yread' = yread \cup QgramIdx(variant, pos - Q(variant))
    /\ UNCHANGED <<variant, x, calls, Bin, kread, kwritten, rightmost_before, y, n, pre, carried, ret, B, Hm, KMP, count, end_first_qgram_pos,
                   scan_back_pos, rightmost_match_pos, next_verify_pos,
                   pattern_pos, window_start_pos, xread, top, iters, cmps,
                   vstep, matched>>

\* Variant of Memcmp that reports every window equal to x.
Memcmp_Always(py, a, px, stray) == TRUE

\* memcmp(y + a, x, m) == 0
Memcmp(py, a, px, stray) ==
    \A k \in 1..Len(px) : ByteAt(py, a + k - 1, stray) = px[k]

\* The walk reached the first q-gram: pos = end of the first q-gram; count the
\* window if (H == Hm &&) memcmp(y + pos - END_FIRST_QGRAM, x, m) == 0; shift.
Verify ==
    /\ pc = "walk"
    /\ pos < scan_back_pos
    /\ variant \in MemcmpVariants
    /\ LET a    == end_first_qgram_pos - END_FIRST_QGRAM(variant)
           gate == variant \in GateVariants => H = Hm
           win  == IF gate THEN a..(a + m - 1) ELSE {}
       IN  \E stray \in Stray(y, win) :
             LET eq == gate /\ Memcmp(y, a, x, stray)
             IN  /\ count' = IF eq THEN count + 1 ELSE count
                 /\ matched' = IF eq THEN matched \cup {a} ELSE matched
                 /\ vstep' = vstep \cup {a}
                 /\ yread' = yread \cup win
                 /\ xread' = xread \cup (IF gate THEN 0..(m - 1) ELSE {})
    /\ pos' = end_first_qgram_pos + MQ1
    /\ pc' = "top"
    /\ how' = "verified"
    /\ UNCHANGED <<variant, x, calls, Bin, kread, kwritten, rightmost_before, y, n, pre, carried, ret, B, Hm, KMP, H, V, end_first_qgram_pos,
                   scan_back_pos, rightmost_match_pos, next_verify_pos,
                   pattern_pos, window_start_pos, top, iters, cmps>>

\* Variant of PatternStarts that verifies the first alignment only.
PatternStarts_One(v, esq) == {esq - Q(v) - END_FIRST_QGRAM(v)}

\* hc4-qverify: the values of pattern_start in
\*   for (pattern_start = end_second_qgram_pos - Q - END_FIRST_QGRAM;
\*        pattern_start <= end_second_qgram_pos - Q; pattern_start++)
PatternStarts(v, esq) == (esq - Q(v) - END_FIRST_QGRAM(v))..(esq - Q(v))

\* hc4-qverify: for each pattern_start,
\*   if (pattern_start <= n - m && memcmp(y + pattern_start, x, m) == 0) count++;
\* pos = end_second_qgram_pos - 1; then the shift.
VerifyQ ==
    /\ pc = "walk"
    /\ pos < scan_back_pos
    /\ variant = "hc4_qverify"
    /\ LET end_second_qgram_pos == end_first_qgram_pos + Q(variant)
           tried  == {ps \in PatternStarts(variant, end_second_qgram_pos)
                         : ps <= n - m}
           win    == UNION {ps..(ps + m - 1) : ps \in tried}
       IN  /\ \E stray \in Stray(y, win) :
                LET hits == {ps \in tried : Memcmp(y, ps, x, stray)}
                IN  /\ count' = count + Cardinality(hits)
                    /\ matched' = matched \cup hits
           /\ vstep' = vstep \cup tried
           /\ yread' = yread \cup win
           /\ xread' = xread \cup (IF tried = {} THEN {} ELSE 0..(m - 1))
           /\ pos' = (end_second_qgram_pos - 1) + MQ1
    /\ pc' = "top"
    /\ how' = "verified"
    /\ UNCHANGED <<variant, x, calls, Bin, kread, kwritten, rightmost_before, y, n, pre, carried, ret, B, Hm, KMP, H, V, end_first_qgram_pos,
                   scan_back_pos, rightmost_match_pos, next_verify_pos,
                   pattern_pos, window_start_pos, top, iters, cmps>>

\* Variant of Restart that restarts the KMP verifier at every window.
Restart_Always(ws, nvp) == TRUE

\* if (window_start_pos > next_verify_pos)
Restart(ws, nvp) == ws > nvp

\* lhc4, lhc3-kmp: the walk is complete; restart KMP if the window starts after
\* the last verified position.
KmpStart ==
    /\ pc = "walk"
    /\ pos < scan_back_pos
    /\ variant \in LinearVariants
    /\ LET ws == end_first_qgram_pos - Q(variant) + 1
       IN  /\ window_start_pos' = ws
           /\ vstep' = vstep \cup {ws}
           /\ IF Restart(ws, next_verify_pos)
              THEN /\ next_verify_pos' = ws
                   /\ pattern_pos' = 0
                   /\ carried' = FALSE
              ELSE /\ carried' = TRUE
                   /\ UNCHANGED <<next_verify_pos, pattern_pos>>
    /\ pc' = "kmp"
    /\ UNCHANGED <<variant, x, calls, Bin, kread, kwritten, rightmost_before, y, n, pre, ret, B, Hm, KMP, H, V, pos, count,
                   end_first_qgram_pos, scan_back_pos, rightmost_match_pos,
                   xread, yread, top, iters, how, cmps, matched>>

RECURSIVE KmpMatch(_, _, _, _, _, _, _)
\* while (pattern_pos < m && x[pattern_pos] == y[next_verify_pos])
\*     { pattern_pos++; next_verify_pos++; }
\* c counts the byte comparisons, R collects the indices of y read.
KmpMatch(px, py, pp, nvp, c, R, stray) ==
    IF pp < Len(px)
    THEN IF px[pp + 1] = ByteAt(py, nvp, stray)
         THEN KmpMatch(px, py, pp + 1, nvp + 1, c + 1, R \cup {nvp}, stray)
         ELSE [pp |-> pp, nvp |-> nvp, c |-> c + 1, R |-> R \cup {nvp}]
    ELSE [pp |-> pp, nvp |-> nvp, c |-> c, R |-> R]

\* Variant of KmpCovers that lets the alignment after the window through.
KmpCovers_OneMore(pp, nvp, ws) == pp >= nvp - ws - 1

\* while (pattern_pos >= next_verify_pos - window_start_pos): the alignment
\* next_verify_pos - pattern_pos under verification is not after the window.
KmpCovers(pp, nvp, ws) == pp >= nvp - ws

\* Variant of Resume: the assignment the source keeps in a comment,
\*   pos = next_verify_pos + Q - pattern_pos;
Resume_Q(v, nvp, pp) == nvp + Q(v) - pp

\* pos = next_verify_pos + m - 1 - pattern_pos;
Resume(v, nvp, pp) == nvp + m - 1 - pp

\* One evaluation of while (pattern_pos >= next_verify_pos - window_start_pos)
\* with the loop body, or on leaving the loop
\* pos = next_verify_pos + m - 1 - pattern_pos; continue;
KmpStep ==
    /\ pc = "kmp"
    /\ IF KmpCovers(pattern_pos, next_verify_pos, window_start_pos)
       THEN \E stray \in Stray(y, KmpMatch(x, y, pattern_pos, next_verify_pos,
                                           0, {}, 0).R) :
              LET r  == KmpMatch(x, y, pattern_pos, next_verify_pos, 0, {}, stray)
                  k  == KMP[r.pp + 1]
              IN  /\ count' = IF r.pp = m THEN count + 1 ELSE count
                  /\ matched' = IF r.pp = m THEN matched \cup {r.nvp - m}
                                ELSE matched
                  /\ pattern_pos' = IF k < 0 THEN k + 1 ELSE k
                  /\ next_verify_pos' = IF k < 0 THEN r.nvp + 1 ELSE r.nvp
                  /\ cmps' = cmps + r.c
                  /\ yread' = yread \cup r.R
                  /\ xread' = xread \cup (IF r.c > 0
                                           THEN pattern_pos..MIN(r.pp, m - 1)
                                           ELSE {})
                  /\ UNCHANGED <<pos, pc, how>>
       ELSE /\ pos' = Resume(variant, next_verify_pos, pattern_pos)
            /\ pc' = "top"
            /\ how' = "resume"
            /\ UNCHANGED <<count, matched, pattern_pos, next_verify_pos, cmps,
                           yread, xread>>
    /\ UNCHANGED <<variant, x, calls, Bin, kread, kwritten, rightmost_before, y, n, pre, carried, ret, B, Hm, KMP, H, V, end_first_qgram_pos,
                   scan_back_pos, rightmost_match_pos, window_start_pos, top,
                   iters, vstep>>

Next ==
    \/ Enter
    \/ LoopExit
    \/ Probe
    \/ FastSkip
    \/ WalkStep
    \/ Verify
    \/ VerifyQ
    \/ KmpStart
    \/ KmpStep

Spec == Init /\ [][Next]_vars

\* The scheduler of a single-threaded call: search() keeps running until it
\* returns.  Liveness is checked over the words without a replaced letter.
FairInit == Start(TRUE)
FairSpec == FairInit /\ [][Next]_vars /\ WF_vars(Next)

(***************************************************************************)
(* The KMP table construction on its own: pre_kmp(x, m, KMP) and           *)
(* preKmp(x, m, kmpNext) called with any pattern of m >= 1 bytes.          *)
(***************************************************************************)
\* Patterns of the table construction have at most MaxKmpLen bytes.
MaxKmpLen == 6

\* All the words of length len over the two letters of al.
Words(al, len) == [1..len -> {al[1], al[2]}]

KmpPatterns == UNION {Words(<<97, 98>>, len) : len \in 1..MaxKmpLen}

KmpInit ==
    /\ variant \in LinearVariants
    /\ x \in KmpPatterns
    /\ y = <<>>
    /\ n = 0
    /\ pre = <<>>
    /\ pc = "kmp_entry"
    /\ B = StaleTable
    /\ Unset

\* pre_kmp(x, m, KMP) / preKmp(x, m, kmpNext) runs from entry to return.
BuildKmp ==
    /\ pc = "kmp_entry"
    /\ LET r0 == KmpBuild(variant, x, 0)
       IN  \E stray \in Stray(x, r0.xr) \cup Stray(r0.kmp, r0.kr) :
             LET r == KmpBuild(variant, x, stray)
             IN  /\ KMP' = r.kmp
                 /\ xread' = r.xr
                 /\ kread' = r.kr
                 /\ kwritten' = r.kw
    /\ pc' = "kmp_done"
    /\ UNCHANGED <<variant, x, calls, Bin, rightmost_before, y, n, pre, ret, B, Hm, H, V, pos, count,
                   end_first_qgram_pos, scan_back_pos, rightmost_match_pos,
                   next_verify_pos, pattern_pos, window_start_pos, yread, top,
                   iters, how, cmps, vstep, matched, carried>>

\* lhc3-kmp.c: the helper pre_kmp(x, m, KMP) runs from entry to return.
BuildUnused ==
    /\ pc = "kmp_entry"
    /\ variant = "lhc3_kmp"
    /\ LET r0 == pre_kmp_unused(x, 0)
       IN  \E stray \in Stray(x, r0.xr) \cup Stray(r0.kmp, r0.kr) :
             LET r == pre_kmp_unused(x, stray)
             IN  /\ KMP' = r.kmp
                 /\ xread' = r.xr
                 /\ kread' = r.kr
                 /\ kwritten' = r.kw
    /\ pc' = "kmp_unused"
    /\ UNCHANGED <<variant, x, calls, Bin, rightmost_before, y, n, pre, ret, B,
                   Hm, H, V, pos, count, end_first_qgram_pos, scan_back_pos,
                   rightmost_match_pos, next_verify_pos, pattern_pos,
                   window_start_pos, yread, top, iters, how, cmps, vstep,
                   matched, carried>>

KmpNext ==
    \/ BuildKmp
    \/ BuildUnused

KmpSpec == KmpInit /\ [][KmpNext]_vars

(***************************************************************************)
(* preprocessing(x, m, B) on its own, called again and again on the same   *)
(* array B: the array search() declares is not initialised, and holds what *)
(* an earlier call left there.                                             *)
(***************************************************************************)
\* At most MaxCalls calls are made on one table.
MaxCalls == 2

\* The patterns of a call with m >= Q.
LongEnough(v, al) == {px \in Patterns(v, al) : ~TooShort(v, Len(px))}

\* Patterns of a later call, other than the pattern of the call before it:
\* the shortest and a longer one.
OtherPatterns(v) ==
    {px \in PlainPatterns(v, <<97, 98>>) : Len(px) \in {Q(v), 3 * Q(v)}}

\* The bytes of x read when hashing at the positions P.
HashReads(v, P) == UNION {QgramIdx(v, p) : p \in P}

PreInit ==
    /\ variant \in Variants
    /\ \E al \in Alphabets : x \in LongEnough(variant, al)
    /\ y = <<>>
    /\ n = 0
    /\ pre = <<>>
    /\ pc = "pre_idle"
    /\ B = StaleTable
    /\ Unset

\* preprocessing(px, m, B) is called and runs until the chain links are
\* written: the table is zeroed, then every chain is walked.
PreLinks ==
    /\ pc = "pre_idle"
    /\ calls < MaxCalls
    /\ \E px \in {x} \cup OtherPatterns(variant) :
         LET c0 == Links(variant, px, B, 0)
         IN  \E stray \in Stray(px, HashReads(variant, c0.P)) :
               LET c == IF stray = 0 THEN c0 ELSE Links(variant, px, B, stray)
               IN  /\ x' = px
                   /\ B' = c.B
                   /\ H' = c.H
                   /\ xread' = HashReads(variant, c.P)
    /\ Bin' = B
    /\ calls' = calls + 1
    /\ pc' = "pre_linked"
    /\ UNCHANGED <<variant, kread, kwritten, rightmost_before, y, n, pre, ret, Hm, KMP, V, pos,
                   count, end_first_qgram_pos, scan_back_pos,
                   rightmost_match_pos, next_verify_pos, pattern_pos,
                   window_start_pos, yread, top, iters, how, cmps, vstep,
                   matched, carried>>

\* The rest of preprocessing(x, m, B): the entries of the leading q-grams are
\* filled and the hash of the whole pattern is returned.
PreLeading ==
    /\ pc = "pre_linked"
    /\ LET f0 == Leading(variant, x, [B |-> B, H |-> H, P |-> {}], 0)
       IN  \E stray \in Stray(x, HashReads(variant, f0.P)) :
             LET f == IF stray = 0 THEN f0
                      ELSE Leading(variant, x, [B |-> B, H |-> H, P |-> {}], stray)
             IN  /\ B' = f.B
                 /\ H' = f.H
                 /\ Hm' = f.H
                 /\ xread' = xread \cup HashReads(variant, f.P)
    /\ pc' = "pre_idle"
    /\ UNCHANGED <<variant, x, calls, Bin, kread, kwritten, rightmost_before, y, n, pre, ret, KMP,
                   V, pos, count, end_first_qgram_pos, scan_back_pos,
                   rightmost_match_pos, next_verify_pos, pattern_pos,
                   window_start_pos, yread, top, iters, how, cmps, vstep,
                   matched, carried>>

PreNext ==
    \/ PreLinks
    \/ PreLeading

PreSpec == PreInit /\ [][PreNext]_vars

(***************************************************************************)
(* Properties.                                                             *)
(***************************************************************************)
\* The text as passed by the caller: the first n bytes of the buffer.
Text == SubSeq(y, 1, n)

\* search() has returned from a call with m >= Q.
Returned == pc = "done" /\ m >= Q(variant)

\* Two counted alignments overlap.
Overlap == \E i, j \in matched : i < j /\ j - i < m

\* C1: in the plain-chain variants shc2-1, shc6 and fhc1, for m >= Q the
\* value returned by search is exactly the number of positions i in [0, n-m]
\* with y[i..i+m) = x, overlapping occurrences included.
C1_PlainCount ==
    (Returned /\ variant \in PlainVariants)
        => ret = Cardinality(Occurrences(x, Text, n))

\* A plain-chain search of a single-letter text for a single-letter pattern
\* with m = Q has returned, having counted more than two overlapping
\* occurrences.
C1_Witness ==
    /\ Returned
    /\ variant = "shc2_1"
    /\ m = Q(variant)
    /\ n > m + 1
    /\ \A i \in 1..n : y[i] = x[1]
    /\ ret = n - m + 1
    /\ Overlap

\* C2: in the rolling-hash variants hc3, hc6 and thc2-1 (the latter with m
\* writable bytes after y[n-1]), for m >= Q search returns the count of a
\* naive scan, for patterns shorter and longer than the bounded chain length
\* of preprocessing.
C2_RollingCount ==
    (Returned /\ variant \in RollingVariants)
        => ret = Cardinality(Occurrences(x, Text, n))

\* hc3 has returned from a search for a pattern so long that preprocessing cut
\* chains at CHAIN_LENGTH, having found two occurrences.
C2_Witness ==
    /\ Returned
    /\ variant = "hc3"
    /\ m >= LongLen(variant)
    /\ m > CHAIN_LENGTH(variant) + Q2(variant)
    /\ ret >= 2
    /\ matched = Occurrences(x, Text, n)

\* C3: in the linear variants lhc4 and lhc3-kmp, for m >= Q search returns
\* exactly the number of occurrences, including overlapping ones found by
\* continuing from KMP[m] after a match and ones verified with a KMP cursor
\* carried over from an earlier window.
C3_LinearCount ==
    (Returned /\ variant \in LinearVariants)
        => ret = Cardinality(Occurrences(x, Text, n))

\* The KMP verifier, entered with the cursor of an earlier window, has just
\* counted an occurrence that overlaps the one counted before it, and goes on
\* from KMP[m] > 0.
C3_Witness ==
    /\ variant \in LinearVariants
    /\ pc = "kmp"
    /\ carried
    /\ pattern_pos = KMP[m + 1]
    /\ pattern_pos > 0
    /\ (next_verify_pos - m) \in matched
    /\ (next_verify_pos - m) >= window_start_pos
    /\ \E j \in matched : j < next_verify_pos - m /\ next_verify_pos - m - j < m

C5_WeakerCount ==
    (Returned /\ variant = "whc3")
        => ret = Cardinality(Occurrences(x, Text, n))

\* whc3 has counted an occurrence after a walk that rightmost_match_pos cut
\* short of the second q-gram of the window.
C5_Witness ==
    /\ variant = "whc3"
    /\ pc = "top"
    /\ how = "verified"
    /\ scan_back_pos > end_first_qgram_pos + Q(variant)
    /\ (end_first_qgram_pos - END_FIRST_QGRAM(variant)) \in matched
    /\ m >= Q2(variant)

\* C6: with m < Q search returns -1 at once: preprocessing is not run (the
\* table is left as it was), no byte of x or y is read, and no sentinel byte is
\* written to y.
C6_TooShort ==
    (m < Q(variant) /\ pc # "entry") =>
        /\ pc = "done"
        /\ ret = -1
        /\ B = StaleTable
        /\ xread = {}
        /\ yread = {}
        /\ iters = 0
        /\ \A i \in (n + 1)..Len(y) : y[i] = 0

\* thc2-1 has returned from a call with a pattern of Q-1 non-zero bytes.
C6_Witness ==
    /\ variant = "thc2_1"
    /\ m = Q(variant) - 1
    /\ x[1] # 0
    /\ n > 0
    /\ pc = "done"
    /\ ret = -1

\* C7: with m >= Q and n < m (n = 0 included) search returns 0 and the body of
\* the main loop is never executed: no byte of y is hashed or compared.
C7_ShortText ==
    (m >= Q(variant) /\ n < m) =>
        /\ pc \in {"entry", "top", "done"}
        /\ iters = 0
        /\ yread = {}
        /\ vstep = {}
        /\ cmps = 0
        /\ pc = "top" => pos >= n
        /\ pc = "done" => ret = 0

\* A search of a text one byte shorter than the pattern has returned.
C7_Witness ==
    /\ Returned
    /\ n = m - 1
    /\ n > 0
    /\ ret = 0
    /\ top = m - 1

\* C8: for m >= Q, pos at the top of the main loop is greater than it was at
\* the top of the previous iteration, however that iteration ended (probe
\* miss, chain failure, verification, KMP resume); the loop runs at most n
\* iterations and search returns.
C8_Progress ==
    /\ [](/\ (pc = "top" /\ top >= 0) => pos >= top + 1
          /\ how \in {"none", "miss", "skipend", "fail", "verified", "resume"}
          /\ iters <= n)
    /\ <>(pc = "done")

\* A linear variant is back at the top of the loop after the KMP resume
\* assignment, pos advanced by exactly 1, not in its first iteration.
C8_Witness ==
    /\ pc = "top"
    /\ how = "resume"
    /\ iters >= 2
    /\ pos = top + 1
    /\ pos < n

\* C9: in the single-alignment variants with m >= Q, once the scanner is past an
\* alignment i at which x occurs, it has reached the verification step with
\* pos - (Q-1) = i and the comparison there succeeded: no probe miss,
\* chain failure or H # Hm gate passes over an occurrence.
C9_NoFalseNegative ==
    (variant \in MemcmpVariants /\ m >= Q(variant) /\ pc \in {"top", "done"}) =>
        \A i \in Occurrences(x, Text, n) :
            i + m - 1 < pos => (i \in vstep /\ i \in matched)

\* hc3 has returned: it passed an empty table entry, a chain failure and a
\* verification step that counted nothing, and still verified an occurrence.
C9_Witness ==
    /\ Returned
    /\ variant = "hc3"
    /\ matched # {}
    /\ matched = Occurrences(x, Text, n)
    /\ vstep # matched
    /\ iters > Cardinality(vstep) + 1

\* C10: in lhc4 and lhc3-kmp the number of byte comparisons
\* x[pattern_pos] == y[next_verify_pos] made by the KMP loop during one
\* search is at most 2n.
C10_WorkBound ==
    variant \in LinearVariants => cmps <= 2 * n

\* A linear variant has returned having compared more bytes than the text
\* holds: some byte of y was compared twice.
C10_Witness ==
    /\ Returned
    /\ variant \in LinearVariants
    /\ cmps > n
    /\ n > m

\* C11: the table built by pre_kmp (lhc4) and preKmp (lhc3-kmp) for a pattern
\* of m >= 1 bytes has KMP[0] = -1; for 1 <= j <= m with KMP[j] >= 0 the first
\* KMP[j] bytes of x equal the KMP[j] bytes before x[j]; for j < m with
\* KMP[j] >= 0, x[KMP[j]] # x[j]; every entry KMP[0..m] is written, and only
\* x[0..m) and KMP[0..m] are accessed.
C11_KmpTable ==
    pc = "kmp_done" =>
        /\ Len(KMP) = m + 1
        /\ kwritten = 0..m
        /\ kread \subseteq 0..m
        /\ xread \subseteq 0..(m - 1)
        /\ KMP[1] = -1
        /\ \A j \in 1..m :
              KMP[j + 1] >= 0 =>
                  /\ KMP[j + 1] <= j
                  /\ \A i \in 0..(KMP[j + 1] - 1) :
                        x[i + 1] = x[j - KMP[j + 1] + i + 1]
        /\ \A j \in 0..(m - 1) :
              KMP[j + 1] >= 0 => x[KMP[j + 1] + 1] # x[j + 1]

\* preKmp has built the table of a pattern with a border of two bytes or
\* more: some failure link was followed, some entry past KMP[0] is -1 and some
\* entry before KMP[m] is positive.
C11_Witness ==
    /\ pc = "kmp_done"
    /\ variant = "lhc3_kmp"
    /\ m >= 5
    /\ KMP[m + 1] >= 2
    /\ kread # {}
    /\ \E j \in 1..(m - 1) : KMP[j + 1] = -1
    /\ \E j \in 1..(m - 1) : KMP[j + 1] > 0

\* preprocessing(x, m, B) has returned.
Preprocessed == pc = "pre_idle" /\ calls >= 1

\* What preprocessing(px, m, B) makes of an all-zero table.
Fresh(v, px) == preprocessing(v, px, {}, 0)

\* C12: the table B and the value Hm that preprocessing(x, m, B) produces
\* depend on x alone, not on what B held before: they are those produced from
\* an all-zero table, whether B was never written, was left by a call with the
\* same x or by a call with another pattern.
C12_Idempotent ==
    Preprocessed => (B = Fresh(variant, x).B /\ Hm = Fresh(variant, x).H)

\* preprocessing has returned from its second call on a table that the first
\* call had filled for another pattern: bits of the old table are gone and
\* new ones are set.
C12_Witness ==
    /\ Preprocessed
    /\ calls = 2
    /\ ~(Bin \subseteq B)
    /\ ~(B \subseteq Bin)
    /\ Bin \cap B # {}

\* C13: no step of search writes x or y[0..n); only thc2-1 writes y at all,
\* and only on entry with m >= Q, where it writes y[n+i] = x[i] for
\* 0 <= i < m and no other byte, whether or not n < m.
C13_ReadOnly ==
    [][/\ x' = x
       /\ n' = n
       /\ Len(y') = Len(y)
       /\ \A i \in 1..n : y'[i] = y[i]
       /\ y' # y => (variant = "thc2_1" /\ pc = "entry" /\ m >= Q(variant))
       /\ (variant = "thc2_1" /\ pc = "entry" /\ m >= Q(variant)) =>
              \A i \in 1..Len(y) :
                  y'[i] = IF i > n /\ i <= n + m THEN x[i - n] ELSE y[i]]_vars

\* thc2-1 has returned from a call with a text shorter than the pattern: the
\* pattern stands after the text, and the byte after the copy is as it was.
C13_Witness ==
    /\ Returned
    /\ variant = "thc2_1"
    /\ n > 0
    /\ n < m
    /\ x[m] # 0
    /\ \A i \in 1..m : y[n + i] = x[i]
    /\ y[n + m + 1] = 0

\* Ch(g_p): the chain hash of the q-gram of x that ends at position p.
Ch(p) == U32(CHAIN_HASH(variant, x, p, 0))

\* The positions p at which the q-grams ending at p and at p + Q lie inside x.
Adjacent == (Q(variant) - 1)..(m - 1 - Q(variant))

\* The entry of the q-gram ending at p holds the fingerprint of the one at r.
Holds(p, r) == FINGERPRINT(Ch(r)) \in Word(B, TableIndex(variant, Ch(p)))

\* The variants the data model's table invariant is stated for.
DataModelVariants == {"shc2_1", "shc6", "hc4_qverify", "fhc1", "whc3", "lhc4"}

\* C14 as stated: after preprocessing, for every i with g_i and g_(i+Q) inside
\* x, the word B[Ch(g_i) & TABLE_MASK] has the bit fp(Ch(g_(i+Q))) set.
C14_AsStated ==
    (Preprocessed /\ variant \in DataModelVariants) =>
        \A i \in Adjacent : Holds(i, i + Q(variant))

\* C14, amended: after preprocessing of shc2-1, shc6, hc4-qverify, fhc1, whc3
\* or lhc4, for every i with g_i and g_(i+Q) inside x, the word
\* B[Ch(g_(i+Q)) & TABLE_MASK] has the bit fp(Ch(g_i)) set: the entry of the
\* later q-gram records the q-gram Q bytes before it.
C14_TableInvariant ==
    (Preprocessed /\ variant \in DataModelVariants) =>
        \A i \in Adjacent : Holds(i + Q(variant), i)

\* A table built for a pattern of three q-grams or more in which some entry
\* of a later q-gram records the earlier one while the entry of the earlier
\* one does not record the later.
C14_Witness ==
    /\ Preprocessed
    /\ variant \in DataModelVariants
    /\ m >= 3 * Q(variant)
    /\ \E i \in Adjacent :
          Holds(i + Q(variant), i) /\ ~Holds(i, i + Q(variant))

\* A step of whc3 or lhc4, as it treats rightmost_match_pos.
RightmostStep ==
    variant \in GuardVariants =>
        /\ rightmost_match_pos' >= rightmost_match_pos
        /\ pc = "entry" => rightmost_match_pos' = 0
        /\ IF pc = "top" /\ pc' = "walk"
           THEN /\ rightmost_match_pos' = pos
                /\ pos >= rightmost_match_pos
                /\ pos < n
           ELSE rightmost_match_pos' = rightmost_match_pos \/ pc = "entry"

\* C15: in whc3 and lhc4 rightmost_match_pos is 0 when the search starts and
\* never decreases; it changes only by the assignment rightmost_match_pos = pos
\* after a probe hit, which stores a value >= the previous one and < n.
C15_Rightmost ==
    /\ rightmost_match_pos = 0
    /\ [][RightmostStep]_vars

\* whc3 has just assigned rightmost_match_pos = pos in its third iteration or
\* later, the value it replaced being past the first q-gram of the window.
C15_Witness ==
    /\ variant = "whc3"
    /\ pc = "walk"
    /\ iters >= 3
    /\ pos = top
    /\ rightmost_match_pos = pos
    /\ scan_back_pos > end_first_qgram_pos + Q(variant)
    /\ pos < n - 1

RECURSIVE Hk(_, _)
\* H_k(a): H_0(a) = ANCHOR_HASH(x, a) and
\* H_k(a) = (H_(k-1)(a) << S2) + CHAIN_HASH(x, a - kQ) in 32 bits.
Hk(a, k) ==
    IF k = 0 THEN U32(ANCHOR_HASH(variant, x, a, 0))
    ELSE Roll(variant, Hk(a, k - 1), x, a - (k * Q(variant)), 0)

\* The anchor positions that have a q-gram before them.
Anchors == END_SECOND_QGRAM(variant)..(m - 1)

\* The steps k >= 1 of the chain of anchor a that stay inside x.
Steps(a) == 1..((a - END_FIRST_QGRAM(variant)) \div Q(variant))

\* The link of step k of the chain of anchor a is in the table.
Linked(a, k) ==
    FINGERPRINT(Hk(a, k)) \in Word(B, TableIndex(variant, Hk(a, k - 1)))

\* C16: after preprocessing of hc3, thc2-1 or hc6, for every anchor a in
\* [2Q-1, m-1] and every k >= 1 with a - kQ >= Q-1 the word
\* B[H_(k-1)(a) & TABLE_MASK] has the bit fp(H_k(a)) set, also for the steps
\* beyond the chain length at which the construction stops.
C16_RollingLinks ==
    (Preprocessed /\ variant \in RollingVariants) =>
        \A a \in Anchors : \A k \in Steps(a) : Linked(a, k)

\* hc3 has built the table of a pattern that is not a single-letter word and
\* is long enough for a chain step beyond CHAIN_LENGTH, whose link is set.
C16_Witness ==
    /\ Preprocessed
    /\ variant = "hc3"
    /\ \E i \in 1..(m - 1) : x[i] # x[i + 1]
    /\ \E a \in Anchors : \E k \in Steps(a) :
          /\ k * Q(variant) > Q(variant) + CHAIN_LENGTH(variant)
          /\ Linked(a, k)

\* The variants whose chains are linked by the plain chain hash.
ChainHashVariants == Variants \ RollingVariants

\* C17: in shc2-1, shc6, hc4-qverify, fhc1, whc3, lhc4 and lhc3-kmp, once the
\* chain links are written and after preprocessing has returned, for every
\* position p with Q-1 <= p and p + Q <= m-1 the entry of the right-hand
\* q-gram holds the fingerprint of the left-hand one:
\* B[CHAIN_HASH(x, p+Q) & TABLE_MASK] has the bit fp(CHAIN_HASH(x, p)).
C17_LinkDirection ==
    (variant \in ChainHashVariants /\ pc \in {"pre_linked", "pre_idle"}
        /\ calls >= 1) =>
        \A p \in Adjacent : Holds(p + Q(variant), p)

\* lhc3-kmp has written the links of a pattern of three q-grams or more, and
\* some link joins two q-grams with different hashes.
C17_Witness ==
    /\ variant = "lhc3_kmp"
    /\ pc = "pre_linked"
    /\ m >= 3 * Q(variant)
    /\ \E p \in Adjacent :
          /\ Ch(p) # Ch(p + Q(variant))
          /\ Holds(p + Q(variant), p)
          /\ Word(B, TableIndex(variant, Ch(p + Q(variant)))) = {FINGERPRINT(Ch(p))}

\* h0(x, p): the hash of the scanner's first probe, for the q-gram of x that
\* ends at position p.
h0(p) == ProbeHash(variant, x, p, 0)

\* C18: after preprocessing, in every variant and for every position p in
\* [Q-1, m-1], the word B[h0(x, p) & TABLE_MASK] is not zero, h0 being
\* CHAIN_HASH in the plain variants and ANCHOR_HASH in hc3, hc6 and thc2-1;
\* also for m in [Q, 2Q-1], where no chain link is written.
C18_Visible ==
    Preprocessed =>
        \A p \in END_FIRST_QGRAM(variant)..(m - 1) :
            Word(B, TableIndex(variant, h0(p))) # {}

\* hc6 has built the table of a pattern of fewer than 2Q bytes with two
\* q-grams of different anchor hash: the table holds nothing but the entries
\* of the fill, one bit each.
C18_Witness ==
    /\ Preprocessed
    /\ variant = "hc6"
    /\ m > Q(variant)
    /\ m < Q2(variant)
    /\ h0(m - 1) # h0(m - 2)
    /\ \A e \in B : \E p \in END_FIRST_QGRAM(variant)..(m - 1) :
            /\ e[1] = TableIndex(variant, h0(p))
            /\ Word(B, e[1]) = {e[2]}

\* The positions of the leading q-grams the fill loop visits.
LeadingPositions ==
    IF variant = "hc6"
    THEN (Q(variant) - 1)..(IF m < 2 * Q(variant) THEN m - 1
                            ELSE (2 * Q(variant)) - 1)
    ELSE END_FIRST_QGRAM(variant)..(MIN(m, END_SECOND_QGRAM(variant)) - 1)

\* The bit the fill writes for the leading q-gram at p: that of fp(~F), F
\* the hash that indexes the entry; "own" says that this is so in hc6 too,
\* and otherwise hc6 writes the bit of fp(CHAIN_HASH(x, p) ^ 0xFF).
FillBit(own, p) ==
    IF own \/ variant # "hc6" THEN FINGERPRINT_INV(h0(p))
    ELSE FINGERPRINT_INV(Ch(p))

\* The fill step leaves every non-zero word as it is, and a word it makes
\* non-zero is the entry of a leading q-gram, holds the one bit FillBit, and
\* that bit is not the bit of fp(F).
FillWrites(own) ==
    (pc = "pre_linked" /\ pc' = "pre_idle") =>
        /\ \A e \in B : Word(B', e[1]) = Word(B, e[1])
        /\ \A e \in B' \ B :
              /\ Word(B, e[1]) = {}
              /\ \E p \in LeadingPositions :
                    /\ e[1] = TableIndex(variant, h0(p))
                    /\ Word(B', e[1]) = {FillBit(own, p)}
                    /\ FillBit(own, p) # FINGERPRINT(h0(p))

\* C19 as stated: in every variant the fill step writes B[F & TABLE_MASK]
\* only when that word is zero, and writes fp(~F), a one-bit word different
\* from fp(F), F being the hash that indexes the entry.
C19_AsStated == [][FillWrites(TRUE)]_vars

\* C19, amended: in every variant the fill step writes B[F & TABLE_MASK] only
\* when that word is zero, and writes a one-bit word different from fp(F), F
\* being the hash that indexes the entry: fp(~F) in every variant but hc6,
\* where F is ANCHOR_HASH(x, p) and the word is fp(CHAIN_HASH(x, p) ^ 0xFF).
C19_Fill == [][FillWrites(FALSE)]_vars

\* hc6 has filled the table of a pattern of fewer than 2Q bytes, where every
\* entry is written by the fill, and the bit of some entry is not the bit of
\* fp(~F) for the anchor hash F that indexes it.
C19_Witness ==
    /\ Preprocessed
    /\ variant = "hc6"
    /\ m < Q2(variant)
    /\ \E p \in LeadingPositions :
          /\ Word(B, TableIndex(variant, h0(p))) = {FINGERPRINT_INV(Ch(p))}
          /\ FINGERPRINT_INV(Ch(p)) # FINGERPRINT_INV(h0(p))

RECURSIVE ScanHash(_, _)
\* The hash after scanning x right to left in steps of Q from position p,
\* where the hash is h, while the position stays >= Q-1: the chain hash of
\* the last q-gram visited, or in the rolling variants the rolled value.
ScanHash(p, h) ==
    IF p - Q(variant) >= Q(variant) - 1
    THEN ScanHash(p - Q(variant), WalkHash(variant, h, x, p - Q(variant), 0))
    ELSE h

\* The hash of the whole pattern, scanned from position m-1.
FullHash == ScanHash(m - 1, h0(m - 1))

\* The scanner has completed the backward walk of a window.
WalkComplete == pc = "walk" /\ pos < scan_back_pos

\* The bytes of the window the scanner is examining equal x.
WindowIsX ==
    LET a == end_first_qgram_pos - END_FIRST_QGRAM(variant)
    IN  \A k \in 1..m : a + k <= Len(y) /\ y[a + k] = x[k]

\* C20: in shc2-1, shc6, fhc1, hc3, hc6 and thc2-1 the value Hm returned by
\* preprocessing is the hash of x scanned right to left from m-1 in steps of
\* Q down to Q-1, and when the scanner completes its backward walk on a
\* window whose m bytes equal x, its H equals Hm, for m >= 2Q and for m < 2Q.
C20_Gate ==
    (variant \in GateVariants /\ WalkComplete) =>
        /\ Hm = FullHash
        /\ WindowIsX => H = Hm

\* A rolling variant has completed the walk of a window that holds x, for a
\* pattern of more than Q and fewer than 2Q bytes, after an earlier window
\* that reached verification and did not hold x.
C20_Witness ==
    /\ variant \in RollingVariants
    /\ WalkComplete
    /\ WindowIsX
    /\ m > Q(variant)
    /\ m < Q2(variant)
    /\ H = Hm
    /\ vstep # {}
    /\ matched = {}

\* The end of the window the scanner leaves in this step: pos of the fast
\* skip loop, or pos at the top of the iteration that ends.
ShiftFrom == IF pc \in {"top", "skip"} THEN pos ELSE top

\* The occurrences passed over when the window moves from end position p to
\* end position r.
PassedOver(p, r) ==
    {i \in Occurrences(x, Text, n) : p - (m - 1) <= i /\ i < r - (m - 1)}

\* A step that ends an iteration, or one round of the fast skip loop, leaves
\* no occurrence between the old and the new window uncounted.
SafeShift ==
    (m >= Q(variant) /\ pc \in {"top", "skip", "walk", "kmp"}
                     /\ pc' \in {"top", "skip"}) =>
        PassedOver(ShiftFrom, pos') \subseteq matched'

\* C21: every shift is safe, in every variant: when an iteration moves the
\* window from start s to start s' > s (probe miss, chain failure at a
\* walked-back position, verification, KMP resume), every alignment i with
\* s <= i < s', i <= n-m and y[i..i+m) = x was compared and counted in that
\* iteration: it is counted now, and nothing at or after a window start is
\* counted before the scanner examines that window.
C21_SafeShift ==
    /\ [](pc \in {"top", "skip"} => \A i \in matched : i < pos - (m - 1))
    /\ [][SafeShift]_vars

\* A chain failure at a walked-back position has shifted the window by more
\* than one byte, after an occurrence was counted and with another occurrence
\* still ahead of the window.
C21_Witness ==
    /\ pc = "top"
    /\ how = "fail"
    /\ pos > top + 1
    /\ pos < top + MQ1
    /\ matched # {}
    /\ \E i \in Occurrences(x, Text, n) : i >= pos - (m - 1)

\* whc3, lhc4: the position of the q-gram hashed by a step of the backward
\* walk, pos after pos -= Q.
WalkedTo == pos - Q(variant)

\* A step of the backward walk of whc3 or lhc4 is taken.
GuardedWalk == variant \in GuardVariants /\ pc = "walk" /\ pos >= scan_back_pos

KmpRound ==
    /\ variant \in LinearVariants
    /\ pc = "kmp"
    /\ KmpCovers(pattern_pos, next_verify_pos, window_start_pos)

\* The inner comparison loop of the round about to run, from the cursor.
Compared == KmpMatch(x, y, pattern_pos, next_verify_pos, 0, {}, 0)

\* A round of the KMP loop counts at most one alignment, the one that ends at
\* next_verify_pos, and that alignment lies in [0, n-m].
KmpCounts ==
    (variant \in LinearVariants /\ count' # count) =>
        /\ pc = "kmp"
        /\ count' = count + 1
        /\ Compared.nvp - m \in 0..(n - m)
        /\ matched' = matched \cup {Compared.nvp - m}

\* C23: in lhc4 and lhc3-kmp, at every point of a search 0 <= next_verify_pos
\* <= n and 0 <= pattern_pos <= m; the inner comparison loop reads
\* y[next_verify_pos] only with next_verify_pos < n and x[pattern_pos] only
\* with 0 <= pattern_pos < m; and count is incremented in the KMP loop only for
\* an alignment next_verify_pos - m in [0, n-m].
C23_KmpBounds ==
    /\ [](variant \in LinearVariants =>
            /\ 0 <= next_verify_pos
            /\ next_verify_pos <= n
            /\ 0 <= pattern_pos
            /\ pattern_pos <= m
            /\ xread \subseteq 0..(m - 1))
    /\ [](KmpRound =>
            /\ Compared.R \subseteq 0..(n - 1)
            /\ Compared.c > 0 => pattern_pos < m
            /\ Compared.c = Compared.pp - pattern_pos
                            + (IF Compared.pp < m THEN 1 ELSE 0))
    /\ [][KmpCounts]_vars

\* The KMP loop, entered with the cursor of an earlier window, has counted the
\* alignment n-m after comparing the last byte of the text, and
\* next_verify_pos = n.
C23_Witness ==
    /\ variant \in LinearVariants
    /\ pc = "kmp"
    /\ carried
    /\ next_verify_pos = n
    /\ (n - m) \in matched
    /\ (n - 1) \in yread
    /\ count >= 2
    /\ n > m + 1

\* lhc4, lhc3-kmp: the alignment under verification.
Alignment == next_verify_pos - pattern_pos

\* The steps of a search keep the saved cursor in order.
CursorStep ==
    variant \in LinearVariants =>
        /\ next_verify_pos' - pattern_pos' >= Alignment
        /\ (pc = "walk" /\ pc' = "kmp" /\ carried') =>
              /\ Alignment <= window_start_pos'
              /\ UNCHANGED <<next_verify_pos, pattern_pos>>
        /\ (pc = "walk" /\ pc' = "kmp" /\ ~carried') =>
              /\ next_verify_pos < window_start_pos'
              /\ next_verify_pos' = window_start_pos'
              /\ pattern_pos' = 0
        /\ (pc = "kmp" /\ pc' = "top") =>
              /\ Alignment > window_start_pos
              /\ pos' - (m - 1) = Alignment
              /\ UNCHANGED <<next_verify_pos, pattern_pos>>

\* C24: in lhc4 and lhc3-kmp, with a = next_verify_pos - pattern_pos, at every
\* evaluation of the outer KMP loop condition 0 <= pattern_pos < m and
\* y[a..next_verify_pos) = x[0..pattern_pos); a never decreases during a
\* search; a window entered without a reset has a <= window_start_pos; and
\* the loop exits with a > window_start_pos and the next window starts at a.
C24_Cursor ==
    /\ []((variant \in LinearVariants /\ pc = "kmp") =>
            /\ 0 <= pattern_pos
            /\ pattern_pos < m
            /\ Alignment >= 0
            /\ \A k \in 1..pattern_pos : y[Alignment + k] = x[k])
    /\ [][CursorStep]_vars

\* The KMP loop is entered without a reset after the filter rejected a window
\* by a chain failure: the saved cursor holds a matched prefix and its
\* alignment lies before the start of the window.
C24_Witness ==
    /\ variant \in LinearVariants
    /\ pc = "kmp"
    /\ carried
    /\ how = "fail"
    /\ pattern_pos >= 1
    /\ Alignment < window_start_pos
    /\ KmpCovers(pattern_pos, next_verify_pos, window_start_pos)
    /\ cmps > 0
    /\ iters >= 3

\* The t < j with x[0..t) = x[j-t..j) and, for j < m, x[t] # x[j].
Candidates(j) ==
    {t \in 0..(j - 1) :
        /\ \A i \in 1..t : x[i] = x[j - t + i]
        /\ j < m => x[t + 1] # x[j + 1]}

\* The largest element of a set of naturals, -1 for the empty set.
Largest(S) == IF S = {} THEN -1 ELSE CHOOSE t \in S : \A u \in S : u <= t

\* C25: the table built by pre_kmp (lhc4) and preKmp (lhc3-kmp) is maximal:
\* KMP[m] is the length of the longest proper prefix of x that is also a suffix
\* of x, and for 1 <= j < m, KMP[j] is the largest t < j with
\* x[0..t) = x[j-t..j) and x[t] # x[j], or -1 if there is no such t.
C25_Maximal ==
    pc = "kmp_done" =>
        \A j \in 1..m : KMP[j + 1] = Largest(Candidates(j))

\* pre_kmp has built the table of a pattern with two borders, where the
\* longest one is KMP[m], and with an entry where the longest border of the
\* prefix is ruled out by the next byte and a shorter one is taken.
C25_Witness ==
    /\ pc = "kmp_done"
    /\ variant = "lhc4"
    /\ KMP[m + 1] >= 2
    /\ \E t \in 1..(KMP[m + 1] - 1) : \A i \in 1..t : x[i] = x[m - t + i]
    /\ \E j \in 1..(m - 1) :
          /\ KMP[j + 1] >= 0
          /\ \E t \in (KMP[j + 1] + 1)..(j - 1) : \A i \in 1..t : x[i] = x[j - t + i]

\* The variants whose preprocessing starts Q chains whatever m is, and those
\* that bound the first chain number.
UnboundedStart == {"shc2_1", "shc6", "hc4_qverify", "fhc1"}
BoundedStart   == {"whc3", "lhc4", "lhc3_kmp"}

\* preprocessing(x, m, B) has written its chain links, or has returned.
Linked1 == pc \in {"pre_linked", "pre_idle"} /\ calls >= 1

\* C26: in shc2-1, shc6, hc4-qverify and fhc1, for every m >= Q preprocessing
\* computes CHAIN_HASH(x, p) only at positions Q-1 <= p <= m-1, that is, it
\* reads only bytes x[0..m), also for m in [Q, 2Q-2].
C26_AsStated ==
    (variant \in UnboundedStart /\ Linked1) => xread \subseteq 0..(m - 1)

\* The chains of the table B that start at every chain number up to Q.
AllChains(s) ==
    PlainChains(variant, x, [B |-> {}, H |-> U32(0), P |-> {},
                             chain_no |-> Q(variant)], s).B

\* C27: in whc3, lhc4 and lhc3-kmp, with start = (m < 2Q) ? m - (Q-1) : Q, for
\* every m >= Q preprocessing computes CHAIN_HASH(x, p) only at positions
\* Q-1 <= p <= m-1 and reads no byte outside x[0..m); the chains skipped for
\* m < 2Q hold no link: the table of links is the one all Q chains would give,
\* whatever the bytes before x[0] are, and it is empty for m < 2Q.
C27_BoundedStart ==
    (variant \in BoundedStart /\ Linked1) =>
        /\ xread \subseteq 0..(m - 1)
        /\ (m - Q(variant))..(m - 1) \subseteq xread
        /\ pc = "pre_linked" =>
              /\ \A s \in StrayBytes : B = AllChains(s)
              /\ m < Q2(variant) => B = {}

\* lhc4 has written the links for a pattern of Q+1 bytes, on a table that held
\* the links of a longer pattern: two chains were started, both at or after
\* position Q-1, and x[0] was read.
C27_Witness ==
    /\ variant = "lhc4"
    /\ pc = "pre_linked"
    /\ calls = 2
    /\ m = Q(variant) + 1
    /\ xread = 0..(m - 1)
    /\ Bin # {}
    /\ B = {}

\* thc2-1: the condition of the fast skip loop is about to be evaluated at pos.
Skipping ==
    /\ variant = "thc2_1"
    /\ \/ pc = "skip"
       \/ pc = "top" /\ pos < n /\ m >= Q(variant)

\* A step of the fast skip loop of thc2-1: a round of the loop adds MQ1 to pos
\* and nothing else; the loop left at pos >= n counts nothing and ends the
\* iteration; every byte read lies before y[n+m].
SkipStep ==
    Skipping =>
        /\ yread' = yread \cup ((pos - Q(variant) + 1)..pos)
        /\ pc' = "skip" =>
              /\ V' = {}
              /\ pos' = pos + MQ1
              /\ pos' > pos
              /\ UNCHANGED <<count, matched, vstep>>
        /\ (pc' # "skip" /\ pos >= n) =>
              /\ V' # {}
              /\ pc' = "top"
              /\ how' = "skipend"
              /\ pos' >= n
              /\ UNCHANGED <<count, matched, vstep>>
        /\ (pc' # "skip" /\ pos < n) =>
              /\ V' # {}
              /\ pc' = "walk"
              /\ UNCHANGED <<pos, count, matched, vstep>>

\* C28: in thc2-1, with the pattern copied to y[n..n+m), the unguarded fast
\* skip loop entered with pos < n evaluates its condition only at positions
\* pos <= n+m-1, pos grows by MQ1 >= 1 in every round, so the loop ends; no
\* byte of y at an index >= n+m is ever read; the sentinel is in place
\* throughout; and a loop that stops at pos >= n counts no occurrence.
C28_Sentinel ==
    /\ [](Skipping => /\ pos <= n + m - 1
                      /\ pos >= m - 1
                      /\ MQ1 >= 1)
    /\ []((variant = "thc2_1" /\ pc \notin {"entry"} /\ m >= Q(variant)) =>
              /\ \A i \in yread : i < n + m
              /\ \A i \in 1..m : y[n + i] = x[i])
    /\ [][SkipStep]_vars

\* The fast skip loop of thc2-1, entered with pos < n, has run two rounds or
\* more over empty table entries and stopped at the last byte of the sentinel,
\* pos = n+m-1, after an occurrence was counted in an earlier iteration.
C28_Witness ==
    /\ variant = "thc2_1"
    /\ pc = "top"
    /\ how = "skipend"
    /\ pos - MQ1 = n + m - 1
    /\ pos - MQ1 >= top + (2 * MQ1)
    /\ (n + m - 1) \in yread
    /\ count >= 1

\* The q-gram of y that is hashed at position p lies inside the text.
InText(p) == 0 <= p - Q(variant) + 1 /\ p < n

\* Where the scanner stands, the hash or the comparison it is about to make
\* reads inside the text.
ReadsInside ==
    /\ (pc = "top" /\ pos < n /\ m >= Q(variant)) => InText(pos)
    /\ (pc = "skip" /\ variant = "fhc1" /\ pos < n) => InText(pos)
    /\ (pc = "walk" /\ pos >= scan_back_pos) => InText(pos - Q(variant))
    /\ (pc = "walk" /\ pos < scan_back_pos) =>
          LET s == end_first_qgram_pos - END_FIRST_QGRAM(variant)
          IN  /\ 0 <= s
              /\ s <= n - m
    /\ (pc = "kmp" /\ KmpCovers(pattern_pos, next_verify_pos, window_start_pos))
          => Compared.R \subseteq 0..(n - 1)

\* The bytes read by a step of the backward walk or of the verification lie
\* inside the text.
WalkReads ==
    pc \in {"walk", "kmp"} => (yread' \ yread) \subseteq 0..(n - 1)

C30_AsStated ==
    pc = "kmp_unused" =>
        /\ Len(KMP) = m + 1
        /\ \A j \in 0..m : KMP[j + 1] = preKmp(x, 0).kmp[j + 1]
====
